---- MODULE Spec2Model ----
(***************************************************************************)
(* backupify-cli: the backup orchestration pipeline.                       *)
(*                                                                         *)
(* Two implementations of backup() live in the repository:                 *)
(*   - the orchestrator (src/unnamed/part_000, lines 262-550): connect,     *)
(*     notify, createBackup, notify, release in a finally block;           *)
(*   - src/src/db.js, the module bin/index.js loads: a callback-style       *)
(*     backup() that always opens a mysql2 connection.                     *)
(* Spec is the orchestrator, SpecDb is src/src/db.js.  One step of the      *)
(* model is one synchronous stretch of the code between two awaits or      *)
(* stream events.                                                          *)
(***************************************************************************)
EXTENDS Integers, Sequences, FiniteSets, TLC

VARIABLES
  impl,          \* which backup() is running: "orchestrator" | "dbjs"
  req,           \* the BackupRequest record handed to backup()
  platform,      \* os.platform()
  pc,            \* position of the run
  connection,    \* backup()'s local `connection`: 0 = undefined, else a handle index
  handles,       \* driver objects created so far (sequence of records)
  dirExists,     \* fs.existsSync(downloadsDirectory)
  files,         \* content of every artifact path
  notifications, \* calls of sendDesktopNotification, in order
  sink,          \* channel invocations made by sendDesktopNotification, each
                 \* "pending" until the channel reports "sent" or "failed"
  stages,        \* stages entered, in order
  log,           \* winston lines, in order
  uploads,       \* paths handed to uploadToCloud
  err,           \* error caught by backup()'s catch ("" = none)
  cbErr,         \* error caught by createBackup's catch ("" = none)
  promise,       \* compressBackupFile's promise: "none"|"pending"|"resolved"|"rejected"
  outputClosed,  \* the output stream has emitted 'close'
  result,        \* backup()'s promise: "pending"|"resolved"|"rejected"|"crashed"
  resultErr,     \* the error backup()'s promise rejected with / the process died of
  run,           \* how many times backup() has been called on this output directory
  prevNames,     \* the artifact names present when the previous run ended
  collections,   \* the document export: what db.collections() returned
  data,          \* the document export: the list built by the loop
  written,       \* the document export: the JSON document in the file
  runs,          \* concurrent calls of backup(): kind, position, `connection` of each
  pool           \* concurrent calls of backup(): every driver object created

vars == <<impl, req, platform, pc, connection, handles, dirExists, files,
          notifications, sink, stages, log, uploads, err, cbErr, promise,
          outputClosed, result, resultErr, run, prevNames,
          collections, data, written, runs, pool>>

\* what the steps of a single run never touch
mongoVars == <<collections, data, written>>
concVars == <<runs, pool>>
aside == <<run, prevNames, mongoVars, concVars>>

(***************************************************************************)
(* Inputs.                                                                 *)
(***************************************************************************)
SupportedKinds == {"mysql", "postgres", "mongodb"}
\* bin/index.js also advertises sqlite, which no backup() handles
Kinds == SupportedKinds \cup {"sqlite"}
DbNames == {"shop", "db"}
Types == {"full", "incremental"}
Platforms == {"win32", "darwin", "linux", "freebsd"}

ConnectErrors == {"ECONNREFUSED", "ER_ACCESS_DENIED"}
ExportErrors == {"ER_DUMP_FAILED", "ENOSPC"}
ArchiveError == "ARCHIVE_ENTRY_FAILED"
WriterError == "EACCES"
MkdirError == "EPERM"
\* connection.end() / connection.close() on `undefined`
ReleaseTypeError == "TypeError: Cannot read properties of undefined"

Requests ==
  [db : Kinds, user : {"root"}, password : {"secret"}, host : {"localhost"},
   port : {3306}, dbname : DbNames, type : Types,
   compress : BOOLEAN, cloud : BOOLEAN]

(***************************************************************************)
(* Artifacts: a path is a directory, a base name and an extension.         *)
(***************************************************************************)
Dirs == {"Downloads", "cwd"}
Exts == {"sql", "json", "zip"}
Paths == [dir : Dirs, base : DbNames, ext : Exts]

Absent == [fmt |-> "absent", db |-> "", entries |-> <<>>, gen |-> 0]
Empty == [fmt |-> "empty", db |-> "", entries |-> <<>>, gen |-> run]

\* every content carries `gen`, the run that wrote it (0: never written)
\* what each export strategy writes
Exported(db, dbname) ==
  [fmt |-> CASE db = "mysql" -> "sqldump"
             [] db = "postgres" -> "catalog"
             [] OTHER -> "json",
   db |-> dbname, entries |-> <<>>, gen |-> run]

\* a zip archive with one entry per archive.file() call
Zip(entryName, entryFmt, entryDb) ==
  [fmt |-> "zip", db |-> "",
   entries |-> <<[name |-> entryName, fmt |-> entryFmt, db |-> entryDb]>>,
   gen |-> run]

IsRaw(c) == c.fmt \in {"sqldump", "catalog", "json"}

backupFileName(dbname) == [base |-> dbname, ext |-> "sql"]
compressedFileName(dbname) == [base |-> dbname, ext |-> "zip"]

join(dir, name) == [dir |-> dir, base |-> name.base, ext |-> name.ext]

\* the directory createBackup / createBackupFile write to
outputDir == IF impl = "orchestrator" THEN "Downloads" ELSE "cwd"

outputFilePath(r) ==
  IF r.compress THEN join(outputDir, compressedFileName(r.dbname))
                ELSE join(outputDir, backupFileName(r.dbname))

targetFilePath(r) == join(outputDir, compressedFileName(r.dbname))

(***************************************************************************)
(* Connector.                                                              *)
(***************************************************************************)
dbConfig(r) ==
  [k \in {"host", "user", "password", "dbname", "port"} |->
     CASE k = "host" -> <<r.host>>
       [] k = "user" -> <<r.user>>
       [] k = "password" -> <<r.password>>
       [] k = "dbname" -> <<r.dbname>>
       [] OTHER -> <<r.port>>]

validMySQLOptions == {"host", "user", "password", "database", "port"}

filteredConfig(config) ==
  [k \in (DOMAIN config) \cap validMySQLOptions |-> config[k]]

\* the record src/db.js hands to mysql.createConnection
dbjsConfig(r) ==
  [k \in {"host", "user", "password", "database", "port"} |->
     CASE k = "host" -> <<r.host>>
       [] k = "user" -> <<r.user>>
       [] k = "password" -> <<r.password>>
       [] k = "database" -> <<r.dbname>>
       [] OTHER -> <<r.port>>]

newHandle(kind, config) ==
  [kind |-> kind, config |-> config, state |-> "created", releases |-> 0]

(***************************************************************************)
(* Notifier.                                                               *)
(***************************************************************************)
Notice(title, dbname, error) == [title |-> title, db |-> dbname, error |-> error]

channel(p) ==
  CASE p = "win32" -> "powershell"
    [] p = "darwin" -> "osascript"
    [] p = "linux" -> "node-notifier"
    [] OTHER -> "none"

\* sendDesktopNotification(title, message): dispatch on the platform, hand the
\* notification to the channel and return; nothing is awaited or thrown
sendDesktopNotification(title, dbname, error) ==
  /\ notifications' = Append(notifications, Notice(title, dbname, error))
  /\ sink' = IF channel(platform) = "none" THEN sink
             ELSE Append(sink, [channel |-> channel(platform), title |-> title,
                                status |-> "pending"])

Titles(ns) == [i \in 1..Len(ns) |-> ns[i].title]

(***************************************************************************)
(* Initial state: backup(request) has just been called.                    *)
(***************************************************************************)
InitCommon ==
  /\ req \in Requests
  /\ platform \in Platforms
  /\ pc = "start"
  /\ connection = 0
  /\ handles = <<>>
  /\ dirExists \in BOOLEAN
  /\ files = [p \in Paths |-> Absent]
  /\ notifications = <<>>
  /\ sink = <<>>
  /\ stages = <<>>
  /\ log = <<>>
  /\ uploads = <<>>
  /\ err = ""
  /\ cbErr = ""
  /\ promise = "none"
  /\ outputClosed = FALSE
  /\ result = "pending"
  /\ resultErr = ""
  /\ run = 1
  /\ prevNames = {}
  /\ collections = <<>> /\ data = <<>> /\ written = <<>>
  /\ runs = <<>> /\ pool = <<>>

Init == impl = "orchestrator" /\ InitCommon

(***************************************************************************)
(* connectToDatabase (orchestrator).                                       *)
(***************************************************************************)
\* default: throw new Error(`Unsupported database type: ${dbType}`)
connectToDatabase_unsupported ==
  /\ impl = "orchestrator" /\ pc = "start"
  /\ req.db \notin SupportedKinds
  /\ err' = "Unsupported database type"
  /\ pc' = "catch"
  /\ UNCHANGED <<aside, impl, req, platform, connection, handles, dirExists, files,
                 notifications, sink, stages, log, uploads, cbErr, promise,
                 outputClosed, result, resultErr>>

\* mysql.createConnection(filteredConfig) / new Client(filteredConfig) /
\* MongoClient.connect(uri): the driver object exists and the handshake starts
connectToDatabase_open ==
  /\ impl = "orchestrator" /\ pc = "start"
  /\ req.db \in SupportedKinds
  /\ handles' = Append(handles,
                  newHandle(req.db, IF req.db = "mongodb" THEN dbConfig(req)
                                    ELSE filteredConfig(dbConfig(req))))
  /\ stages' = Append(stages, "connect")
  /\ pc' = "connecting"
  /\ UNCHANGED <<aside, impl, req, platform, connection, dirExists, files,
                 notifications, sink, log, uploads, err, cbErr, promise,
                 outputClosed, result, resultErr>>

\* the handshake completes: connectToDatabase returns the handle and backup()
\* assigns it to `connection`
connectToDatabase_ok ==
  /\ impl = "orchestrator" /\ pc = "connecting"
  /\ handles' = [handles EXCEPT ![Len(handles)].state = "live"]
  /\ connection' = Len(handles)
  /\ log' = Append(log, "Connected to the database")
  /\ pc' = "connected"
  /\ UNCHANGED <<aside, impl, req, platform, dirExists, files, notifications, sink,
                 stages, uploads, err, cbErr, promise, outputClosed, result,
                 resultErr>>

\* connectToDatabase_fail with the error swallowed: the run goes on as if connected
connectToDatabase_fail_swallowed ==
  /\ impl = "orchestrator" /\ pc = "connecting"
  /\ \E e \in ConnectErrors : err' = e
  /\ handles' = [handles EXCEPT ![Len(handles)].state = "failed"]
  /\ pc' = "connected"
  /\ UNCHANGED <<aside, impl, req, platform, connection, dirExists, files,
                 notifications, sink, stages, log, uploads, cbErr, promise,
                 outputClosed, result, resultErr>>

\* the handshake fails: connectToDatabase throws, `connection` in backup() is
\* never assigned
connectToDatabase_fail ==
  /\ impl = "orchestrator" /\ pc = "connecting"
  /\ \E e \in ConnectErrors : err' = e
  /\ handles' = [handles EXCEPT ![Len(handles)].state = "failed"]
  /\ pc' = "catch"
  /\ UNCHANGED <<aside, impl, req, platform, connection, dirExists, files,
                 notifications, sink, stages, log, uploads, cbErr, promise,
                 outputClosed, result, resultErr>>

(***************************************************************************)
(* backup (orchestrator): the notifications around createBackup.           *)
(***************************************************************************)
\* backup_notifyStarted with a notifier that throws on an unrecognized platform
backup_notifyStarted_throwing ==
  /\ impl = "orchestrator" /\ pc = "connected"
  /\ IF channel(platform) = "none"
       THEN /\ err' = "Unsupported OS"
            /\ pc' = "catch"
            /\ UNCHANGED <<notifications, sink>>
       ELSE /\ sendDesktopNotification("Backup Started", req.dbname, "")
            /\ pc' = "createBackup"
            /\ UNCHANGED err
  /\ UNCHANGED <<aside, impl, req, platform, connection, handles, dirExists, files,
                 stages, log, uploads, cbErr, promise, outputClosed,
                 result, resultErr>>

backup_notifyStarted ==
  /\ impl = "orchestrator" /\ pc = "connected"
  /\ sendDesktopNotification("Backup Started", req.dbname, "")
  /\ pc' = "createBackup"
  /\ UNCHANGED <<aside, impl, req, platform, connection, handles, dirExists, files,
                 stages, log, uploads, err, cbErr, promise, outputClosed,
                 result, resultErr>>

(***************************************************************************)
(* createBackup (orchestrator).                                            *)
(***************************************************************************)
\* afterExport with the two optional stages in the wrong order
afterExport_uploadFirst(r) ==
  IF r.cloud THEN "upload" ELSE IF r.compress THEN "compress" ELSE "cbEnd"

\* afterExport acting on the backup-type label: an incremental backup skips
\* the optional stages
afterExport_byType(r) ==
  IF r.type = "incremental" THEN "cbEnd"
  ELSE IF r.compress THEN "compress" ELSE IF r.cloud THEN "upload" ELSE "cbEnd"

\* where the run goes once the export has been written
afterExport(r) ==
  IF r.compress THEN "compress" ELSE IF r.cloud THEN "upload" ELSE "cbEnd"

\* if (!fs.existsSync(downloadsDirectory)) fs.mkdirSync(downloadsDirectory)
createBackup_mkdir ==
  /\ impl = "orchestrator" /\ pc = "createBackup"
  /\ dirExists' = TRUE
  /\ pc' = "export"
  /\ UNCHANGED <<aside, impl, req, platform, connection, handles, files,
                 notifications, sink, stages, log, uploads, err, cbErr,
                 promise, outputClosed, result, resultErr>>

\* fs.mkdirSync throws: caught by createBackup's own catch
createBackup_mkdirFail ==
  /\ impl = "orchestrator" /\ pc = "createBackup"
  /\ ~dirExists
  /\ cbErr' = MkdirError
  /\ pc' = "cbCatch"
  /\ UNCHANGED <<aside, impl, req, platform, connection, handles, dirExists, files,
                 notifications, sink, stages, log, uploads, err, promise,
                 outputClosed, result, resultErr>>

\* createBackup_export opening its output exclusively: an existing artifact
\* makes the export fail
createBackup_export_exclusive ==
  /\ impl = "orchestrator" /\ pc = "export"
  /\ stages' = Append(stages, "export")
  /\ IF files[outputFilePath(req)] = Absent
       THEN /\ files' = [files EXCEPT ![outputFilePath(req)] =
                           Exported(req.db, req.dbname)]
            /\ log' = Append(log, "backup complete")
            /\ pc' = afterExport(req)
            /\ UNCHANGED cbErr
       ELSE /\ cbErr' = "EEXIST"
            /\ pc' = "cbCatch"
            /\ UNCHANGED <<files, log>>
  /\ UNCHANGED <<aside, impl, req, platform, connection, handles, dirExists,
                 notifications, sink, uploads, err, promise,
                 outputClosed, result, resultErr>>

\* the export strategy of the kind writes its output to outputFilePath
createBackup_export ==
  /\ impl = "orchestrator" /\ pc = "export"
  /\ stages' = Append(stages, "export")
  /\ files' = [files EXCEPT ![outputFilePath(req)] = Exported(req.db, req.dbname)]
  /\ log' = Append(log, "backup complete")
  /\ pc' = afterExport(req)
  /\ UNCHANGED <<aside, impl, req, platform, connection, handles, dirExists,
                 notifications, sink, uploads, err, cbErr, promise,
                 outputClosed, result, resultErr>>

\* mysqldump / connection.query / collection.find / writeFileSync throws:
\* caught by createBackup's own catch
createBackup_exportFail ==
  /\ impl = "orchestrator" /\ pc = "export"
  /\ stages' = Append(stages, "export")
  /\ \E e \in ExportErrors : cbErr' = e
  /\ pc' = "cbCatch"
  /\ UNCHANGED <<aside, impl, req, platform, connection, handles, dirExists, files,
                 notifications, sink, log, uploads, err, promise,
                 outputClosed, result, resultErr>>

(***************************************************************************)
(* compressBackupFile (the same text in both implementations).             *)
(***************************************************************************)
\* what the archiver reads from sourceFilePath.  When the source is the very
\* file the output stream opened for writing, the read races the truncation
\* and the archive's own writes.
sourceRead(source, target) ==
  IF source = target
    THEN {files[source], Empty, [fmt |-> "zipbytes", db |-> "", entries |-> <<>>, gen |-> run]}
    ELSE {files[source]}

\* new Promise(...): the streams are created, both listeners registered,
\* archive.file() queued and archive.finalize() called; nothing has settled
compressBackupFile_start ==
  /\ pc = "compress"
  /\ stages' = Append(stages, "compress")
  /\ promise' = "pending"
  /\ pc' = "archiving"
  /\ UNCHANGED <<aside, impl, req, platform, connection, handles, dirExists, files,
                 notifications, sink, log, uploads, err, cbErr, outputClosed,
                 result, resultErr>>

\* compressBackupFile_finalize taking the return of archive.finalize() as completion
compressBackupFile_finalize_resolving ==
  /\ pc = "archiving"
  /\ \E c \in sourceRead(outputFilePath(req), targetFilePath(req)) :
       files' = [files EXCEPT ![targetFilePath(req)] =
                   Zip(outputFilePath(req), c.fmt, c.db)]
  /\ promise' = "resolved"
  /\ log' = Append(log, "Backup compressed")
  /\ pc' = IF req.cloud THEN "upload" ELSE "cbEnd"
  /\ UNCHANGED <<aside, impl, req, platform, connection, handles, dirExists,
                 notifications, sink, stages, uploads, err, cbErr,
                 outputClosed, result, resultErr>>

\* the archiver reads the source and the finished archive is written to the
\* target; the output stream is not closed yet
compressBackupFile_finalize ==
  /\ pc = "archiving"
  /\ \E c \in sourceRead(outputFilePath(req), targetFilePath(req)) :
       files' = [files EXCEPT ![targetFilePath(req)] =
                   Zip(outputFilePath(req), c.fmt, c.db)]
  /\ pc' = "flushing"
  /\ UNCHANGED <<aside, impl, req, platform, connection, handles, dirExists,
                 notifications, sink, stages, log, uploads, err, cbErr,
                 promise, outputClosed, result, resultErr>>

\* archive.on("error", (err) => reject(err)); the target was opened with
\* flag 'w' and is left truncated
compressBackupFile_archiveError ==
  /\ pc = "archiving"
  /\ promise' = "rejected"
  /\ files' = [files EXCEPT ![targetFilePath(req)] = Empty]
  /\ cbErr' = ArchiveError
  /\ pc' = "cbCatch"
  /\ UNCHANGED <<aside, impl, req, platform, connection, handles, dirExists,
                 notifications, sink, stages, log, uploads, err,
                 outputClosed, result, resultErr>>

\* the output stream emits 'error': no listener is registered on it, so the
\* event is an uncaught exception; the promise is never settled
compressBackupFile_writerError ==
  /\ pc \in {"archiving", "flushing"}
  /\ result' = "crashed"
  /\ resultErr' = WriterError
  /\ pc' = "crashed"
  /\ UNCHANGED <<aside, impl, req, platform, connection, handles, dirExists, files,
                 notifications, sink, stages, log, uploads, err, cbErr,
                 promise, outputClosed>>

\* output.on("close", () => resolve())
compressBackupFile_close ==
  /\ pc = "flushing"
  /\ outputClosed' = TRUE
  /\ promise' = "resolved"
  /\ log' = Append(log, "Backup compressed")
  /\ pc' = IF req.cloud THEN "upload" ELSE "cbEnd"
  /\ UNCHANGED <<aside, impl, req, platform, connection, handles, dirExists, files,
                 notifications, sink, stages, uploads, err, cbErr, result,
                 resultErr>>

\* uploadToCloud(outputFilePath): logs and returns
uploadToCloud ==
  /\ pc = "upload"
  /\ stages' = Append(stages, "upload")
  /\ uploads' = Append(uploads, outputFilePath(req))
  /\ log' = Append(log, "Backup uploaded to the cloud")
  /\ pc' = "cbEnd"
  /\ UNCHANGED <<aside, impl, req, platform, connection, handles, dirExists, files,
                 notifications, sink, err, cbErr, promise, outputClosed,
                 result, resultErr>>

(***************************************************************************)
(* The end of createBackup and of backup (orchestrator).                   *)
(***************************************************************************)
\* winston.info("Backup process completed successfully."); return
createBackup_return ==
  /\ impl = "orchestrator" /\ pc = "cbEnd"
  /\ log' = Append(log, "Backup process completed successfully.")
  /\ pc' = "notifyCompleted"
  /\ UNCHANGED <<aside, impl, req, platform, connection, handles, dirExists, files,
                 notifications, sink, stages, uploads, err, cbErr, promise,
                 outputClosed, result, resultErr>>

\* createBackup_catch closing the connection itself, before backup() has
\* issued its notification
createBackup_catch_releasing ==
  /\ impl = "orchestrator" /\ pc = "cbCatch"
  /\ log' = Append(log, "Backup failed")
  /\ handles' = [handles EXCEPT ![connection].state = "closed",
                                ![connection].releases = @ + 1]
  /\ stages' = Append(stages, "release")
  /\ pc' = "notifyCompleted"
  /\ UNCHANGED <<aside, impl, req, platform, connection, dirExists, files,
                 notifications, sink, uploads, err, cbErr, promise,
                 outputClosed, result, resultErr>>

\* catch (error) { winston.error("Backup failed:", ...) }: nothing is rethrown
createBackup_catch ==
  /\ impl = "orchestrator" /\ pc = "cbCatch"
  /\ log' = Append(log, "Backup failed")
  /\ pc' = "notifyCompleted"
  /\ UNCHANGED <<aside, impl, req, platform, connection, handles, dirExists, files,
                 notifications, sink, stages, uploads, err, cbErr, promise,
                 outputClosed, result, resultErr>>

\* backup_notifyCompleted announcing the start a second time
backup_notifyCompleted_asStarted ==
  /\ impl = "orchestrator" /\ pc = "notifyCompleted"
  /\ sendDesktopNotification("Backup Started", req.dbname, "")
  /\ pc' = "finally"
  /\ UNCHANGED <<aside, impl, req, platform, connection, handles, dirExists, files,
                 stages, log, uploads, err, cbErr, promise, outputClosed,
                 result, resultErr>>

backup_notifyCompleted ==
  /\ impl = "orchestrator" /\ pc = "notifyCompleted"
  /\ sendDesktopNotification("Backup Completed", req.dbname, "")
  /\ pc' = "finally"
  /\ UNCHANGED <<aside, impl, req, platform, connection, handles, dirExists, files,
                 stages, log, uploads, err, cbErr, promise, outputClosed,
                 result, resultErr>>

\* catch (err): log, then the "Backup Failed" notification with err.message
backup_catch ==
  /\ impl = "orchestrator" /\ pc = "catch"
  /\ log' = Append(log, "Error during backup process")
  /\ sendDesktopNotification("Backup Failed", req.dbname, err)
  /\ pc' = "finally"
  /\ UNCHANGED <<aside, impl, req, platform, connection, handles, dirExists, files,
                 stages, uploads, err, cbErr, promise, outputClosed, result,
                 resultErr>>

\* finally: connection.end() / connection.close() by kind.  `connection` is
\* dereferenced without a check: when it is undefined the call throws a
\* TypeError out of the finally block and backup()'s promise rejects with it.
backup_finally ==
  /\ impl = "orchestrator" /\ pc = "finally"
  /\ IF req.db \in SupportedKinds
       THEN IF connection = 0
              THEN /\ result' = "rejected"
                   /\ resultErr' = ReleaseTypeError
                   /\ UNCHANGED <<handles, stages>>
              ELSE /\ handles' = [handles EXCEPT
                                    ![connection].state = "closed",
                                    ![connection].releases = @ + 1]
                   /\ stages' = Append(stages, "release")
                   /\ result' = "resolved"
                   /\ UNCHANGED resultErr
       ELSE /\ result' = "resolved"
            /\ UNCHANGED <<handles, stages, resultErr>>
  /\ pc' = "done"
  /\ UNCHANGED <<aside, impl, req, platform, connection, dirExists, files,
                 notifications, sink, log, uploads, err, cbErr, promise,
                 outputClosed>>

\* the callback of exec() (or node-notifier's own result): the delivery is
\* reported and logged to the console; nothing is returned to backup().
\* It can run at any time while the process is alive.
notification_callback ==
  /\ impl = "orchestrator" /\ pc # "crashed"
  /\ \E i \in DOMAIN sink :
       /\ sink[i].status = "pending"
       /\ \E s \in {"sent", "failed"} : sink' = [sink EXCEPT ![i].status = s]
  /\ UNCHANGED <<aside, impl, req, platform, pc, connection, handles, dirExists,
                 files, notifications, stages, log, uploads, err, cbErr,
                 promise, outputClosed, result, resultErr>>

\* every step of the run itself, the notification callbacks aside
Pipeline ==
  \/ connectToDatabase_unsupported
  \/ connectToDatabase_open
  \/ connectToDatabase_ok
  \/ connectToDatabase_fail
  \/ backup_notifyStarted
  \/ createBackup_mkdir
  \/ createBackup_mkdirFail
  \/ createBackup_export
  \/ createBackup_exportFail
  \/ compressBackupFile_start
  \/ compressBackupFile_finalize
  \/ compressBackupFile_archiveError
  \/ compressBackupFile_writerError
  \/ compressBackupFile_close
  \/ uploadToCloud
  \/ createBackup_return
  \/ createBackup_catch
  \/ backup_notifyCompleted
  \/ backup_catch
  \/ backup_finally

Next == Pipeline \/ notification_callback

Spec == Init /\ [][Next]_vars

(***************************************************************************)
(* A second call of backup() with the same request on the same directory. *)
(***************************************************************************)
MaxRuns == 2

\* the artifact names present in the output directories
Names == {p \in Paths : files[p] # Absent}

\* the user invokes the same successful request again: everything local to
\* the run starts afresh, the file system stays as the last run left it
backup_again ==
  /\ impl = "orchestrator" /\ pc = "done"
  /\ err = "" /\ cbErr = "" /\ result = "resolved"
  /\ run < MaxRuns
  /\ run' = run + 1
  /\ prevNames' = Names
  /\ pc' = "start"
  /\ connection' = 0
  /\ handles' = <<>>
  /\ notifications' = <<>>
  /\ sink' = <<>>
  /\ stages' = <<>>
  /\ log' = <<>>
  /\ uploads' = <<>>
  /\ promise' = "none"
  /\ outputClosed' = FALSE
  /\ result' = "pending"
  /\ UNCHANGED <<impl, req, platform, dirExists, files, err, cbErr, resultErr,
                 mongoVars, concVars>>

NextTwice == Next \/ backup_again

SpecTwice == Init /\ [][NextTwice]_vars

(***************************************************************************)

(* The document export of createBackup (dbType === "mongodb"), step by     *)
(* step: one collection.find().toArray() per collection, then one          *)
(* JSON.stringify and one writeFileSync.                                   *)
(***************************************************************************)
MaxCollections == 2
MaxDocs == 2

SeqUpTo(S, n) == UNION {[1..k -> S] : k \in 0..n}

\* field values a driver hands back: JSON-native ones and BSON types
Str(x) == [t |-> "string", v |-> x]
Num(x) == [t |-> "number", v |-> x]
Oid(x) == [t |-> "ObjectId", v |-> x]
Date(x) == [t |-> "Date", v |-> x]

Docs == {[id |-> Str("k1"), f |-> Num("7")],
         [id |-> Oid("5f1a"), f |-> Date("2024-01-01T00:00:00.000Z")]}

CollectionNames == {"orders", "users"}

Databases ==
  {db \in SeqUpTo([name : CollectionNames, docs : SeqUpTo(Docs, MaxDocs)],
                  MaxCollections) :
     \A i, j \in DOMAIN db : db[i].name = db[j].name => i = j}

\* JSON.stringify calls toJSON() on values that have one: an ObjectId becomes
\* its hex string, a Date its ISO string; strings and numbers are kept
toJSON(x) == IF x.t \in {"ObjectId", "Date"} THEN Str(x.v) ELSE x

\* JSON.stringify(data, null, 2), given as the value the text parses back to
JSONstringify(list) ==
  [i \in 1..Len(list) |->
     [collection |-> list[i].collection,
      docs |-> [j \in 1..Len(list[i].docs) |->
                  [id |-> toJSON(list[i].docs[j].id),
                   f |-> toJSON(list[i].docs[j].f)]]]]

\* the state of a run that is not being stepped
idleRun(p, r) ==
  /\ impl = "orchestrator" /\ req = r /\ platform = "linux" /\ pc = p
  /\ connection = 0 /\ handles = <<>> /\ dirExists = TRUE
  /\ files = [q \in Paths |-> Absent]
  /\ notifications = <<>> /\ sink = <<>> /\ stages = <<>> /\ log = <<>>
  /\ uploads = <<>> /\ err = "" /\ cbErr = "" /\ promise = "none"
  /\ outputClosed = FALSE /\ result = "pending" /\ resultErr = ""
  /\ run = 1 /\ prevNames = {}

\* const db = connection.db(dbname); const collections = await db.collections();
\* const data = []
InitMongo ==
  /\ \E r \in Requests :
       /\ r.db = "mongodb" /\ ~r.compress /\ ~r.cloud /\ r.type = "full"
       /\ idleRun("mongoFind", r)
  /\ collections \in Databases
  /\ data = <<>>
  /\ written = <<>>
  /\ runs = <<>> /\ pool = <<>>

\* const docs = await collection.find().toArray();
\* data.push({ collection: collection.collectionName, docs })
export_find ==
  /\ pc = "mongoFind"
  /\ Len(data) < Len(collections)
  /\ LET c == collections[Len(data) + 1] IN
       data' = Append(data, [collection |-> c.name, docs |-> c.docs])
  /\ UNCHANGED <<impl, req, platform, pc, connection, handles, dirExists,
                 files, notifications, sink, stages, log, uploads, err, cbErr,
                 promise, outputClosed, result, resultErr, run, prevNames,
                 collections, written, concVars>>

\* fs.writeFileSync(outputFilePath, JSON.stringify(data, null, 2))
export_write ==
  /\ pc = "mongoFind"
  /\ Len(data) = Len(collections)
  /\ written' = JSONstringify(data)
  /\ files' = [files EXCEPT ![outputFilePath(req)] = Exported(req.db, req.dbname)]
  /\ pc' = "mongoWritten"
  /\ UNCHANGED <<impl, req, platform, connection, handles, dirExists,
                 notifications, sink, stages, log, uploads, err, cbErr,
                 promise, outputClosed, result, resultErr, run, prevNames,
                 collections, data, concVars>>

NextMongo == export_find \/ export_write

SpecMongo == InitMongo /\ [][NextMongo]_vars

(***************************************************************************)

(* Several calls of backup() in progress at once (the orchestrator), seen   *)
(* through their connections: each call has its own `connection` variable  *)
(* and the calls' awaits interleave freely.                                *)
(***************************************************************************)
MaxConcurrent == 2

Runs == 1..MaxConcurrent

\* the driver object run r created (a run creates at most one)
handleOf(r) == CHOOSE i \in DOMAIN pool : pool[i].owner = r

InitConc ==
  /\ \E r \in Requests :
       /\ r.db = "mysql" /\ r.dbname = "shop" /\ ~r.compress /\ ~r.cloud
       /\ r.type = "full"
       /\ idleRun("concurrent", r)
  /\ collections = <<>> /\ data = <<>> /\ written = <<>>
  /\ runs \in [Runs -> [kind : Kinds, pc : {"start"}, connection : {0}]]
  /\ pool = <<>>

concIdle ==
  UNCHANGED <<impl, req, platform, pc, connection, handles, dirExists, files,
              notifications, sink, stages, log, uploads, err, cbErr, promise,
              outputClosed, result, resultErr, run, prevNames, mongoVars>>

\* connectToDatabase, default branch: throws; backup() catches and notifies
conc_unsupported(r) ==
  /\ runs[r].pc = "start" /\ runs[r].kind \notin SupportedKinds
  /\ runs' = [runs EXCEPT ![r].pc = "finally"]
  /\ UNCHANGED pool
  /\ concIdle

\* connectToDatabase creates the driver object in its own local variable
conc_open(r) ==
  /\ runs[r].pc = "start" /\ runs[r].kind \in SupportedKinds
  /\ pool' = Append(pool, [owner |-> r, kind |-> runs[r].kind,
                           state |-> "created", releases |-> 0,
                           users |-> {}, releasedBy |-> {}])
  /\ runs' = [runs EXCEPT ![r].pc = "connecting"]
  /\ concIdle

\* connection = await connectToDatabase(...), then the "Backup Started" notice
conc_ok(r) ==
  /\ runs[r].pc = "connecting"
  /\ pool' = [pool EXCEPT ![handleOf(r)].state = "live"]
  /\ runs' = [runs EXCEPT ![r].connection = handleOf(r), ![r].pc = "createBackup"]
  /\ concIdle

\* the handshake fails: `connection` of run r stays undefined; catch, notify
conc_fail(r) ==
  /\ runs[r].pc = "connecting"
  /\ pool' = [pool EXCEPT ![handleOf(r)].state = "failed"]
  /\ runs' = [runs EXCEPT ![r].pc = "finally"]
  /\ concIdle

\* await createBackup(db, connection, ...): the export goes through the run's
\* own `connection`; createBackup returns normally whatever happens
conc_createBackup(r) ==
  /\ runs[r].pc = "createBackup"
  /\ pool' = [pool EXCEPT ![runs[r].connection].users = @ \cup {r}]
  /\ runs' = [runs EXCEPT ![r].pc = "finally"]
  /\ concIdle

\* finally: connection.end() / connection.close(); a TypeError when the
\* run's `connection` is undefined
conc_finally(r) ==
  /\ runs[r].pc = "finally"
  /\ IF runs[r].kind \in SupportedKinds /\ runs[r].connection # 0
       THEN pool' = [pool EXCEPT
                       ![runs[r].connection].state = "closed",
                       ![runs[r].connection].releases = @ + 1,
                       ![runs[r].connection].releasedBy = @ \cup {r}]
       ELSE UNCHANGED pool
  /\ runs' = [runs EXCEPT ![r].pc =
                 IF runs[r].kind \in SupportedKinds /\ runs[r].connection = 0
                   THEN "rejected" ELSE "resolved"]
  /\ concIdle

NextConc ==
  \E r \in Runs :
     \/ conc_unsupported(r)
     \/ conc_open(r)
     \/ conc_ok(r)
     \/ conc_fail(r)
     \/ conc_createBackup(r)
     \/ conc_finally(r)

SpecConc == InitConc /\ [][NextConc]_vars

(***************************************************************************)

(* src/src/db.js: backup() and createBackupFile().                         *)
(***************************************************************************)
InitDb == impl = "dbjs" /\ InitCommon

\* mysql.createConnection({...}); connection.connect(callback); backup()
\* returns.  The kind is not looked at before the connection is opened.
dbjs_createConnection ==
  /\ impl = "dbjs" /\ pc = "start"
  /\ handles' = Append(handles, newHandle("mysql", dbjsConfig(req)))
  /\ connection' = Len(handles) + 1
  /\ stages' = Append(stages, "connect")
  /\ result' = "resolved"
  /\ pc' = "connecting"
  /\ UNCHANGED <<aside, impl, req, platform, dirExists, files, notifications, sink,
                 log, uploads, err, cbErr, promise, outputClosed, resultErr>>

\* if (err) { winston.error(...); return; }
dbjs_connectErr ==
  /\ impl = "dbjs" /\ pc = "connecting"
  /\ \E e \in ConnectErrors : err' = e
  /\ handles' = [handles EXCEPT ![connection].state = "failed"]
  /\ log' = Append(log, "Error connecting to the database")
  /\ pc' = "done"
  /\ UNCHANGED <<aside, impl, req, platform, connection, dirExists, files,
                 notifications, sink, stages, uploads, cbErr, promise,
                 outputClosed, result, resultErr>>

\* connected: createBackupFile is started for mysql, nothing for other kinds
dbjs_connectOk ==
  /\ impl = "dbjs" /\ pc = "connecting"
  /\ handles' = [handles EXCEPT ![connection].state = "live"]
  /\ log' = Append(log, "Connected to the database")
  /\ pc' = IF req.db = "mysql" THEN "export" ELSE "done"
  /\ UNCHANGED <<aside, impl, req, platform, connection, dirExists, files,
                 notifications, sink, stages, uploads, err, cbErr, promise,
                 outputClosed, result, resultErr>>

\* await mysqldump({connection, dumpToFile: outputFilePath})
createBackupFile_export ==
  /\ impl = "dbjs" /\ pc = "export"
  /\ stages' = Append(stages, "export")
  /\ files' = [files EXCEPT ![outputFilePath(req)] = Exported("mysql", req.dbname)]
  /\ log' = Append(log, "backup complete")
  /\ pc' = afterExport(req)
  /\ UNCHANGED <<aside, impl, req, platform, connection, handles, dirExists,
                 notifications, sink, uploads, err, cbErr, promise,
                 outputClosed, result, resultErr>>

createBackupFile_exportFail ==
  /\ impl = "dbjs" /\ pc = "export"
  /\ stages' = Append(stages, "export")
  /\ \E e \in ExportErrors : cbErr' = e
  /\ pc' = "cbCatch"
  /\ UNCHANGED <<aside, impl, req, platform, connection, handles, dirExists, files,
                 notifications, sink, log, uploads, err, promise,
                 outputClosed, result, resultErr>>

createBackupFile_return ==
  /\ impl = "dbjs" /\ pc = "cbEnd"
  /\ log' = Append(log, "Backup process completed successfully.")
  /\ pc' = "done"
  /\ UNCHANGED <<aside, impl, req, platform, connection, handles, dirExists, files,
                 notifications, sink, stages, uploads, err, cbErr, promise,
                 outputClosed, result, resultErr>>

createBackupFile_catch ==
  /\ impl = "dbjs" /\ pc = "cbCatch"
  /\ log' = Append(log, "Backup failed")
  /\ pc' = "done"
  /\ UNCHANGED <<aside, impl, req, platform, connection, handles, dirExists, files,
                 notifications, sink, stages, uploads, err, cbErr, promise,
                 outputClosed, result, resultErr>>

NextDb ==
  \/ dbjs_createConnection
  \/ dbjs_connectErr
  \/ dbjs_connectOk
  \/ createBackupFile_export
  \/ createBackupFile_exportFail
  \/ compressBackupFile_start
  \/ compressBackupFile_finalize
  \/ compressBackupFile_archiveError
  \/ compressBackupFile_writerError
  \/ compressBackupFile_close
  \/ uploadToCloud
  \/ createBackupFile_return
  \/ createBackupFile_catch

SpecDb == InitDb /\ [][NextDb]_vars

(***************************************************************************)
(* Vocabulary of the properties.                                           *)
(***************************************************************************)
Range(q) == {q[i] : i \in DOMAIN q}

\* the connect stage failed: a driver object was created and its handshake failed
connectFailed == \E i \in DOMAIN handles : handles[i].state = "failed"

\* a stage of the run raised an error (caught by backup() or by createBackup)
stageFailed == err # "" \/ cbErr # ""

\* the run is over and no stage raised an error
succeeded == pc = "done" /\ ~stageFailed

\* the name the raw export of a kind is specified to have
rawPath(r) ==
  [dir |-> outputDir, base |-> r.dbname,
   ext |-> IF r.db = "mongodb" THEN "json" ELSE "sql"]

zipPath(r) == [dir |-> outputDir, base |-> r.dbname, ext |-> "zip"]

(***************************************************************************)
(* C1..C10.                                                                *)
(***************************************************************************)

\* C1: in every finished run of a supported kind, every connection handle the
\* run created has been released exactly once, and the release step did not
\* crash the run (backup() did not reject with the release's TypeError).
C1_ReleasedExactlyOnce ==
  (pc = "done" /\ req.db \in SupportedKinds) =>
     /\ handles # <<>>
     /\ \A i \in DOMAIN handles : handles[i].releases = 1
     /\ resultErr # ReleaseTypeError

\* C2: in every finished run, a stage error implies a "Backup Failed"
\* notification carrying that error, and a "Backup Completed" notification
\* implies that no stage raised an error.
C2_FatalErrorsFail ==
  pc = "done" =>
     /\ stageFailed =>
          \E i \in DOMAIN notifications :
             /\ notifications[i].title = "Backup Failed"
             /\ notifications[i].error \in {err, cbErr} \ {""}
     /\ (\E i \in DOMAIN notifications :
           notifications[i].title = "Backup Completed") => ~stageFailed

\* C3: after a successful run with compress = true the raw export is at
\* <dbname>-backup.sql/.json, the archive at <dbname>-backup.zip, and the
\* compressor's source differs from its target.
C3_RawAndZip ==
  (succeeded /\ req.compress) =>
     /\ IsRaw(files[rawPath(req)])
     /\ files[zipPath(req)].fmt = "zip"
     /\ outputFilePath(req) # targetFilePath(req)

\* C4: after a successful run exactly one path holds a raw export, and it is
\* <dbname>-backup.sql for mysql and postgres, <dbname>-backup.json for mongodb.
C4_RawArtifactName ==
  succeeded => {p \in Paths : IsRaw(files[p])} = {rawPath(req)}

\* C5: for a request of an unsupported kind no driver object is ever created,
\* no connect or export stage is entered and no artifact is written.
C5_UnsupportedNoConnection ==
  req.db \notin SupportedKinds =>
     /\ handles = <<>>
     /\ stages = <<>>
     /\ \A p \in Paths : files[p] = Absent

\* C6: after a compression failure the upload stage was not entered, the run
\* is Failed ("Backup Failed" emitted) and the raw export is still on disk
\* with the content the export stage wrote.
C6_CompressFailureKeepsRaw ==
  (pc = "done" /\ cbErr = ArchiveError) =>
     /\ "upload" \notin Range(stages)
     /\ \E i \in DOMAIN notifications : notifications[i].title = "Backup Failed"
     /\ \E p \in Paths : files[p] = Exported(req.db, req.dbname)

\* C7: a "Backup Started" notification exists only once the Connector has
\* succeeded; when the connect stage failed there is no "Backup Started", the
\* export stage was not entered and no artifact exists.
C7_StartedOnlyAfterConnect ==
  /\ (\E i \in DOMAIN notifications : notifications[i].title = "Backup Started")
       => (connection # 0 /\ handles[connection].state \in {"live", "closed"})
  /\ connectFailed =>
       /\ \A i \in DOMAIN notifications : notifications[i].title # "Backup Started"
       /\ "export" \notin Range(stages)
       /\ \A p \in Paths : files[p] = Absent

C7_Witness ==
  /\ pc = "done" /\ connectFailed
  /\ Titles(notifications) = <<"Backup Failed">>

\* C8: a run in which no stage raised an error has emitted exactly "Backup
\* Started" then "Backup Completed" when it ends, and only prefixes of that
\* sequence on the way.
C8_StartedThenCompleted ==
  /\ succeeded => Titles(notifications) = <<"Backup Started", "Backup Completed">>
  /\ ~stageFailed => Titles(notifications) \in
        {<<>>, <<"Backup Started">>, <<"Backup Started", "Backup Completed">>}

C8_Witness ==
  /\ succeeded /\ req.compress /\ req.cloud
  /\ Range(stages) = {"connect", "export", "compress", "upload", "release"}
  /\ Len(notifications) = 2

\* C9: when a stage has failed and the release step fails too, the error
\* backup() ends with is the stage's error, not the release's.
C9_ReleaseDoesNotMask ==
  (pc = "done" /\ err # "" /\ result = "rejected") => resultErr = err

\* C10: once the output writer or the archiver has raised an error,
\* compressBackupFile's promise is rejected (neither resolved nor pending).
C10_CompressErrorsReject ==
  (cbErr = ArchiveError \/ resultErr = WriterError) => promise = "rejected"

(***************************************************************************)
(* C11..C20.                                                               *)
(***************************************************************************)

\* the export stage has written its output
exportSucceeded == "backup complete" \in Range(log)

\* C11: the record a relational driver object was created with has only
\* whitelisted fields, a database field equal to the request's dbname, and
\* the request's host, user, password and port.
C11_ForwardedConfig ==
  \A i \in DOMAIN handles :
     handles[i].kind \in {"mysql", "postgres"} =>
        LET c == handles[i].config IN
        /\ DOMAIN c \subseteq validMySQLOptions
        /\ "database" \in DOMAIN c
        /\ c["database"] = <<req.dbname>>
        /\ {"host", "user", "password", "port"} \subseteq DOMAIN c
        /\ c["host"] = <<req.host>> /\ c["user"] = <<req.user>>
        /\ c["password"] = <<req.password>> /\ c["port"] = <<req.port>>

\* C12: a run that can take no further step has reached a terminal outcome
\* (its "Backup Completed" or "Backup Failed" notification was issued and
\* backup() has settled) and has released the connection it was assigned.
C12_StopsOnlyWhenTerminal ==
  (~ENABLED Next) =>
     /\ pc = "done" /\ result \in {"resolved", "rejected"}
     /\ \E i \in DOMAIN notifications :
          notifications[i].title \in {"Backup Completed", "Backup Failed"}
     /\ connection # 0 => handles[connection].releases = 1

\* C15: after a successful run with compress = true the archive has exactly
\* one entry, and that entry holds the raw export of the run.
C15_ZipHoldsRaw ==
  (succeeded /\ req.compress) =>
     LET z == files[zipPath(req)] IN
     /\ z.fmt = "zip"
     /\ Len(z.entries) = 1
     /\ z.entries[1].fmt = Exported(req.db, req.dbname).fmt
     /\ z.entries[1].db = req.dbname

\* C18: compression is entered only when compress is set and the export
\* succeeded; upload only when cloud is set, the export succeeded and a
\* requested compression has resolved; compression comes before upload.
C18_StagesOrdered ==
  /\ "compress" \in Range(stages) => (req.compress /\ exportSucceeded)
  /\ "upload" \in Range(stages) =>
        /\ req.cloud /\ exportSucceeded
        /\ req.compress => (promise = "resolved" /\ "compress" \in Range(stages))
  /\ \A i, j \in DOMAIN stages :
        (stages[i] = "compress" /\ stages[j] = "upload") => i < j
  /\ \A i, j \in DOMAIN stages :
        (stages[i] = "export" /\ stages[j] \in {"compress", "upload"}) => i < j

C18_Witness ==
  /\ pc = "cbEnd" /\ req.compress /\ req.cloud
  /\ stages = <<"connect", "export", "compress", "upload">>

\* C20: compressBackupFile's promise is resolved only once the output stream
\* has closed: after archive.finalize() has returned it is still pending, and
\* the "Backup compressed" line and the upload stage come after the close.
C20_ResolveOnlyAfterClose ==
  /\ promise = "resolved" => outputClosed
  /\ pc = "flushing" => (promise = "pending" /\ ~outputClosed)
  /\ "Backup compressed" \in Range(log) => outputClosed
  /\ ("upload" \in Range(stages) /\ req.compress) => outputClosed

C20_Witness ==
  /\ "upload" \in Range(stages) /\ req.compress
  /\ outputClosed /\ promise = "resolved"
  /\ "Backup compressed" \in Range(log)

\* what a notification must leave alone: the run's outcome and its artifacts
RunView == <<connection, handles, dirExists, files, stages, uploads, err, cbErr,
             promise, outputClosed, result, resultErr>>

\* where backup() continues after each of its three notifications
afterNotify(p) == IF p = "connected" THEN "createBackup" ELSE "finally"

\* C13: a call of sendDesktopNotification returns normally into backup()
\* (the run continues at the next statement, whatever the platform) and
\* changes nothing of the run's outcome and artifacts; a delivery report
\* (sent or failed) changes nothing but the delivery record; and the run is
\* never held up by an unconfirmed delivery: until it has ended, a step of
\* the pipeline itself is possible.
C13_NotificationInert ==
  /\ [][ /\ (pc \in {"connected", "notifyCompleted", "catch"} /\ pc' # pc) =>
               /\ Len(notifications') = Len(notifications) + 1
               /\ pc' = afterNotify(pc)
               /\ UNCHANGED RunView
         /\ notifications' # notifications =>
               pc \in {"connected", "notifyCompleted", "catch"}
         /\ (sink' # sink /\ notifications' = notifications) =>
               (UNCHANGED pc /\ UNCHANGED RunView) ]_vars
  /\ [](pc \notin {"done", "crashed"} => ENABLED Pipeline)

C13_Witness ==
  /\ succeeded /\ result = "resolved" /\ Len(sink) = 2
  /\ sink[1].status = "failed" /\ sink[2].status = "pending"
  /\ files[outputFilePath(req)] # Absent

\* everything the pipeline derives from the request
plan(r) ==
  [kind |-> r.db, supported |-> r.db \in SupportedKinds, dbname |-> r.dbname,
   compress |-> r.compress, cloud |-> r.cloud,
   config |-> dbConfig(r), forwarded |-> filteredConfig(dbConfig(r)),
   dbjs |-> dbjsConfig(r),
   output |-> outputFilePath(r), target |-> targetFilePath(r),
   content |-> Exported(r.db, r.dbname), next |-> afterExport(r)]

exportCanSucceed == ENABLED (createBackup_export /\ cbErr' = "")

\* C14: when the same successful request is run again on the same output
\* directory, the export is not made to fail by the artifact of the previous
\* run (nor the directory step by the existing directory), and when the run
\* has succeeded the directory holds the same artifact names as after the
\* previous run, each written by this run.
C14_RerunOverwrites ==
  /\ (run > 1 /\ pc = "createBackup") => ~ENABLED createBackup_mkdirFail
  /\ (run > 1 /\ pc = "export") =>
        (files[outputFilePath(req)] # Absent /\ exportCanSucceed)
  /\ (run > 1 /\ succeeded) =>
        /\ Names = prevNames
        /\ \A p \in Names : files[p].gen = run

C14_Witness ==
  /\ run = 2 /\ succeeded /\ result = "resolved"
  /\ prevNames = {outputFilePath(req)}
  /\ files[outputFilePath(req)].gen = 2

\* C16: the JSON document written by the document export has one entry per
\* collection, in enumeration order, named after the collection, and the
\* docs of each entry are the collection's documents, in order and unchanged.
C16_DocumentRoundTrip ==
  pc = "mongoWritten" =>
     /\ Len(written) = Len(collections)
     /\ \A i \in DOMAIN written :
          /\ written[i].collection = collections[i].name
          /\ written[i].docs = collections[i].docs

\* C19: with several runs in progress, every run of a supported kind has a
\* driver object of its own, a driver object is used and released only by the
\* run that created it, and once all runs have ended every driver object has
\* been released exactly once.
C19_HandlesNotShared ==
  /\ \A i, j \in DOMAIN pool : pool[i].owner = pool[j].owner => i = j
  /\ \A i \in DOMAIN pool :
        /\ pool[i].users \subseteq {pool[i].owner}
        /\ pool[i].releasedBy \subseteq {pool[i].owner}
  /\ \A r \in DOMAIN runs :
        runs[r].connection # 0 => pool[runs[r].connection].owner = r
  /\ (\A r \in DOMAIN runs : runs[r].pc \in {"resolved", "rejected"}) =>
        /\ \A r \in DOMAIN runs :
              runs[r].kind \in SupportedKinds =>
                 \E i \in DOMAIN pool : pool[i].owner = r
        /\ \A i \in DOMAIN pool : pool[i].releases = 1

(***************************************************************************)
(* C21..C23.                                                               *)
(***************************************************************************)

\* a "Backup Completed" or "Backup Failed" notification of the run
terminalNotices ==
  {i \in DOMAIN notifications :
     notifications[i].title \in {"Backup Completed", "Backup Failed"}}

\* the handles the run has released
released == {i \in DOMAIN handles : handles[i].releases > 0}

\* C21: the connection is released last.  A step that releases a handle is
\* taken from the finally block, with createBackup returned (no compression
\* pending, every stage entered before it) and the terminal notification
\* already issued, and it ends the run; once a handle is released no stage is
\* entered, no artifact or upload changes and no notification is issued.
C21_ReleasedLast ==
  /\ [][ released' # released =>
            /\ pc = "finally" /\ pc' = "done"
            /\ promise # "pending"
            /\ terminalNotices # {}
            /\ stages' = Append(stages, "release") ]_vars
  /\ [][ released # {} =>
            /\ stages' = stages /\ files' = files /\ uploads' = uploads
            /\ notifications' = notifications
            /\ handles' = handles ]_vars
  /\ [](released # {} => pc = "done" /\ stages[Len(stages)] = "release")

C21_Witness ==
  /\ pc = "done" /\ connection # 0 /\ released = {connection}
  /\ cbErr = ArchiveError /\ req.cloud
  /\ stages = <<"connect", "export", "compress", "release">>
  /\ Titles(notifications) = <<"Backup Started", "Backup Completed">>

\* C22: never more than one terminal notification is issued, never both
\* "Backup Completed" and "Backup Failed", and a run that has ended, whichever
\* stage failed, has issued exactly one.
C22_OneTerminalNotice ==
  /\ Cardinality(terminalNotices) <= 1
  /\ pc \in {"done", "crashed"} => Cardinality(terminalNotices) = 1

\* C22 for the runs that end by settling backup()
C22_OneTerminalNoticeWhenSettled ==
  /\ Cardinality(terminalNotices) <= 1
  /\ pc = "done" => Cardinality(terminalNotices) = 1

\* C23: backup() contains every error: its promise is never rejected and no
\* exception escapes the run as an uncaught one; a run that has ended has
\* resolved.
C23_NeverRejects ==
  /\ result \in {"pending", "resolved"}
  /\ pc \in {"done", "crashed"} => result = "resolved"

\* C23 for the runs whose connection was established and whose output
\* stream raised no error
C23_ResolvesOnceConnected ==
  (pc = "done" /\ (connection # 0 \/ req.db \notin SupportedKinds)) =>
     result = "resolved"

====
